---- MODULE Spec2Model ----
(***************************************************************************)
(* Exergy analysis for injection technologies: the three Streamlit scripts *)
(* ior_app.py, IOR_V2.py and ior_app_v2.py, each run once from top to      *)
(* bottom. A run selects a technology and an input mode, reads the sidebar *)
(* parameters, loads a measurement table, converts units, runs the per-row *)
(* calculation loop, derives the summary columns and plots.                *)
(*                                                                         *)
(* Python floats are modelled as exact signed rationals (rounding is not   *)
(* modelled). A rational is [neg, n, d] with n, d naturals written as      *)
(* little-endian sequences of base-10^4 limbs, so that the products of the *)
(* program's constants (45.63e6 * 0.158987 * ...) stay exact.              *)
(***************************************************************************)
EXTENDS Integers, Sequences, FiniteSets, TLC

\* ------------------------------------------------------------- bounds
\* longest measurement table a run loads
MaxRows == 2
\* largest value of the "number of valves" widget the model tries
MaxValves == 2

\* ---------------------------------------------- exact float arithmetic
Base == 10^4

RECURSIVE NatOf(_)
NatOf(k) == IF k = 0 THEN <<>> ELSE <<k % Base>> \o NatOf(k \div Base)

RECURSIVE AddC(_, _, _)
AddC(a, b, c) ==
    IF c = 0 /\ b = <<>> THEN a
    ELSE IF c = 0 /\ a = <<>> THEN b
    ELSE IF a = <<>> /\ b = <<>> THEN <<c>>
    ELSE LET x == IF a = <<>> THEN 0 ELSE a[1]
             y == IF b = <<>> THEN 0 ELSE b[1]
             s == x + y + c
         IN <<s % Base>> \o AddC(IF a = <<>> THEN a ELSE Tail(a),
                                 IF b = <<>> THEN b ELSE Tail(b), s \div Base)

NatAdd(a, b) == AddC(a, b, 0)

RECURSIVE MulLimb(_, _, _)
MulLimb(a, d, c) ==
    IF a = <<>> THEN (IF c = 0 THEN <<>> ELSE <<c>>)
    ELSE LET s == a[1] * d + c
         IN <<s % Base>> \o MulLimb(Tail(a), d, s \div Base)

RECURSIVE NatMul(_, _)
NatMul(a, b) ==
    IF a = <<>> \/ b = <<>> THEN <<>>
    ELSE IF a = <<1>> THEN b
    ELSE IF b = <<1>> THEN a
    ELSE LET lo == IF a[1] = 0 THEN <<>> ELSE MulLimb(b, a[1], 0)
             hi == NatMul(Tail(a), b)
         IN AddC(lo, IF hi = <<>> THEN hi ELSE <<0>> \o hi, 0)

RECURSIVE CmpFrom(_, _, _)
CmpFrom(a, b, k) ==
    IF k = 0 THEN 0
    ELSE IF a[k] < b[k] THEN -1
    ELSE IF a[k] > b[k] THEN 1
    ELSE CmpFrom(a, b, k - 1)

NatCmp(a, b) ==
    IF Len(a) < Len(b) THEN -1
    ELSE IF Len(a) > Len(b) THEN 1
    ELSE CmpFrom(a, b, Len(a))

RECURSIVE Strip(_)
Strip(a) ==
    IF a = <<>> THEN a
    ELSE IF a[Len(a)] = 0 THEN Strip(SubSeq(a, 1, Len(a) - 1)) ELSE a

RECURSIVE SubB(_, _, _)
SubB(a, b, c) ==
    IF a = <<>> THEN <<>>
    ELSE LET y == IF b = <<>> THEN 0 ELSE b[1]
             s == a[1] - y - c
         IN <<s % Base>> \o SubB(Tail(a), IF b = <<>> THEN b ELSE Tail(b),
                                 IF s < 0 THEN 1 ELSE 0)

\* a - b for a >= b
NatSub(a, b) == Strip(SubB(a, b, 0))

\* num/den with the common factors Base removed
RECURSIVE Reduce(_, _)
Reduce(n, d) ==
    IF n # <<>> /\ n[1] = 0 /\ d[1] = 0 THEN Reduce(Tail(n), Tail(d))
    ELSE <<n, d>>

Mk(neg, n, d) ==
    IF n = <<>> THEN [neg |-> FALSE, n |-> <<>>, d |-> <<1>>]
    ELSE LET r == Reduce(n, d) IN [neg |-> neg, n |-> r[1], d |-> r[2]]

\* the float p/q, q > 0
Frac(p, q) == Mk(p < 0, NatOf(IF p < 0 THEN -p ELSE p), NatOf(q))
Num(k) == Frac(k, 1)
Zero == Num(0)
One == Num(1)

IsZero(x) == x.n = <<>>
RNeg(x) == Mk(~x.neg, x.n, x.d)
RMul(x, y) == Mk(x.neg # y.neg, NatMul(x.n, y.n), NatMul(x.d, y.d))
\* x / y for y # 0 (the callers raise ZeroDivisionError before dividing by 0)
RDiv(x, y) == Mk(x.neg # y.neg, NatMul(x.n, y.d), NatMul(x.d, y.n))
RAdd(x, y) ==
    LET same == x.d = y.d
        a == IF same THEN x.n ELSE NatMul(x.n, y.d)
        b == IF same THEN y.n ELSE NatMul(y.n, x.d)
        d == IF same THEN x.d ELSE NatMul(x.d, y.d)
    IN IF x.neg = y.neg THEN Mk(x.neg, NatAdd(a, b), d)
       ELSE IF NatCmp(a, b) >= 0 THEN Mk(x.neg, NatSub(a, b), d)
       ELSE Mk(y.neg, NatSub(b, a), d)
RSub(x, y) == RAdd(x, RNeg(y))
\* ==, < and <= on floats
REq(x, y) == x = y \/ (x.neg = y.neg /\ NatMul(x.n, y.d) = NatMul(y.n, x.d))
RLt(x, y) == LET z == RSub(x, y) IN z.neg
RLe(x, y) == ~RLt(y, x)

\* ------------------------------------------------- program constants
X_trat == 5
X_Oil_Chem == 45630000
X_man == 123600000
X_shipping == 188
g == Frac(981, 100)
bbl_to_m3 == Frac(158987, 1000000)
psi_to_Pa == Frac(689476, 100)
\* 3600 * 1000 (ior_app.py, ior_app_v2.py) and 3.6e6 (IOR_V2.py)
kWh_to_J == Num(3600 * 1000)
\* 2.77778e-7
J_to_kWh == RDiv(Frac(277778, 1000000), Num(1000000))

Variants == {"ior_app", "IOR_V2", "ior_app_v2"}

\* the options of the technology selectbox
Technologies(v) ==
    IF v = "ior_app"
    THEN {"Water Injection", "Polymer Injection", "CO2 Injection (coming soon)",
          "Other Technology (coming soon)"}
    ELSE IF v = "IOR_V2"
    THEN {"Waterflooding", "Polymer Injection", "CO2 Injection (Coming Soon)",
          "Steam Injection / CSS (Coming Soon)", "ASP (Coming Soon)"}
    ELSE {"Waterflooding", "Polymer Injection", "CO2 Injection (coming soon)"}

\* the technologies the model selects: the implemented ones and the first
\* placeholder (the placeholders all take the same branch)
TriedTechnologies(v) ==
    { t \in Technologies(v) :
        t \in {"Water Injection", "Waterflooding", "Polymer Injection",
               "CO2 Injection (coming soon)", "CO2 Injection (Coming Soon)"} }

InputModes == {"Upload Excel", "Manual Entry"}

\* ----------------------------------------------------- sample inputs
InputCols == {"Qinj_B", "qoil_B", "WHP_psi", "WOR", "C", "date"}

Measurements ==
    { [Qinj_B |-> Num(1000), qoil_B |-> Num(500), WHP_psi |-> Num(1500),
       WOR |-> Frac(1, 2), C |-> Frac(5, 100), date |-> 2],
      [Qinj_B |-> Num(1000), qoil_B |-> Num(500), WHP_psi |-> Num(1000),
       WOR |-> Frac(1, 2), C |-> Frac(5, 100), date |-> 2],
      [Qinj_B |-> Num(1000), qoil_B |-> Num(0), WHP_psi |-> Num(1500),
       WOR |-> One, C |-> Zero, date |-> 1],
      [Qinj_B |-> Num(0), qoil_B |-> Num(500), WHP_psi |-> Num(1500),
       WOR |-> Zero, C |-> Zero, date |-> 3],
      [Qinj_B |-> Num(0), qoil_B |-> Num(500), WHP_psi |-> Num(1000),
       WOR |-> Zero, C |-> Zero, date |-> 3] }

Restrict(m, cols) == [c \in cols |-> m[c]]

SeqsUpTo(S, n) == UNION { [1..k -> S] : k \in 0..n }

\* a table: its columns, its index labels (a RangeIndex) and its rows
Table(cols, ms) ==
    [cols |-> cols,
     index |-> [p \in 1..Len(ms) |-> p - 1],
     rows |-> [p \in 1..Len(ms) |-> Restrict(ms[p], cols)]]

Tables(cols, n) == { Table(cols, ms) : ms \in SeqsUpTo(Measurements, n) }

\* the Excel files the model uploads: with every column, of up to MaxRows rows,
\* and short ones that lack C, WOR or date
Files ==
    Tables(InputCols, MaxRows) \cup Tables(InputCols \ {"C"}, 1)
        \cup Tables(InputCols \ {"WOR"}, 1) \cup Tables(InputCols \ {"date"}, 1)

None == [cols |-> {}, index |-> <<>>, rows |-> <<>>, none |-> TRUE]

VARIABLES
    variant,        \* which script runs
    technology,     \* the technology selectbox
    input_mode,     \* the input mode radio
    cfg,            \* the sidebar parameters
    input_table,    \* the table the user provides (uploaded file, edited grid)
    df,             \* the DataFrame, or Undefined
    i,              \* position of the next row of df.iterrows()
    loc,            \* the loop body's variables after the last iteration
    pc,             \* the stage the script is at
    halt            \* "" while running, "stop" after st.stop(), or the exception

vars == <<variant, technology, input_mode, cfg, input_table, df, i, loc, pc, halt>>

Undefined == [defined |-> FALSE]
\* before the first iteration the loop body's variables are unbound
NoLocals ==
    [bound |-> FALSE, X_mix |-> Zero, X_W_Prod |-> Zero, X_Iny |-> Zero,
     X_RFV |-> Zero, X_ALS |-> Zero, X_Oil_Total |-> Zero, X_RF |-> Zero]

Init ==
    /\ variant \in Variants
    /\ technology = ""
    /\ input_mode = ""
    /\ cfg = <<>>
    /\ input_table = None
    /\ df = Undefined
    /\ i = 1
    /\ loc = NoLocals
    /\ pc = "select"
    /\ halt = ""

\* the order of the stages in each script
StageAfter(v, stage) ==
    IF v = "ior_app"
    THEN CASE stage = "select" -> "sidebar"
           [] stage = "sidebar" -> "load"
           [] stage = "load" -> "convert"
           [] stage = "convert" -> "loop"
           [] stage = "loop" -> "post"
           [] stage = "post" -> "plot"
           [] stage = "plot" -> "done"
    ELSE CASE stage = "select" -> "load"
           [] stage = "load" -> "sidebar"
           [] stage = "sidebar" -> "convert"
           [] stage = "convert" -> "loop"
           [] stage = "loop" -> "post"
           [] stage = "post" -> "plot"
           [] stage = "plot" -> "done"

Running(stage) == pc = stage /\ halt = ""

\* technology and input mode widgets
SelectWidgets ==
    /\ Running("select")
    /\ technology' \in TriedTechnologies(variant)
    /\ input_mode' \in InputModes
    /\ pc' = StageAfter(variant, "select")
    /\ UNCHANGED <<variant, cfg, input_table, df, i, loc, halt>>

\* ------------------------------------------------------------ sidebar
\* values tried for the "Polymer efficiency (%)" widget: under polymer injection
\* its minimum and its maximum, and its default where the minimum is 0; its
\* default under the technologies that do not read it
PolyPercents(v, tech) ==
    IF tech # "Polymer Injection" THEN {90}
    ELSE IF v = "ior_app_v2" THEN {1, 100} ELSE {0, 90, 100}
\* value tried for the "Control valve efficiency (%)" widget of ior_app.py
ValvePercents == {90}

SidebarConfigs(v, tech) ==
    IF v = "ior_app"
    THEN { [rho_O |-> Num(900), rho_W |-> Num(1050), eff_pump |-> Frac(80, 100),
            eff_poly |-> IF tech = "Polymer Injection" THEN Frac(p, 100) ELSE One,
            eff_pui |-> IF tech = "Polymer Injection" THEN Frac(85, 100) ELSE One,
            d_shipping |-> IF tech = "Polymer Injection" THEN Num(5000) ELSE Zero,
            eff_valv |-> Frac(e, 100), H |-> Num(1000), ALS |-> Frac(80, 100),
            n_valves |-> n, CO2_factor |-> Frac(4, 10), energy_cost |-> Frac(1, 10)]
           : p \in PolyPercents(v, tech), e \in ValvePercents, n \in 1..MaxValves }
    ELSE IF v = "IOR_V2"
    THEN { [rho_O |-> Num(900), rho_W |-> Num(1050), eff_pump |-> Frac(80, 100),
            eff_poly |-> Frac(p, 100), eff_pui |-> Frac(85, 100),
            H |-> Num(1500), ALS |-> Frac(85, 100), d_shipping |-> Num(5000),
            n_valves |-> n, CO2_factor |-> Frac(4, 10), energy_cost |-> Frac(1, 10)]
           : p \in PolyPercents(v, tech), n \in 1..MaxValves }
    ELSE { [rho_O |-> Num(900), rho_W |-> Num(1050), eff_pump |-> Frac(80, 100),
            eff_poly |-> IF tech = "Polymer Injection" THEN Frac(p, 100) ELSE One,
            eff_pui |-> Frac(85, 100), d_shipping |-> Num(5000),
            H |-> Num(1500), ALS |-> Frac(85, 100),
            n_valves |-> n, CO2_factor |-> Frac(5, 10), energy_cost |-> Frac(1, 10)]
           : p \in PolyPercents(v, tech), n \in 1..MaxValves }

Sidebar ==
    /\ Running("sidebar")
    /\ cfg' \in SidebarConfigs(variant, technology)
    /\ pc' = StageAfter(variant, "sidebar")
    /\ UNCHANGED <<variant, technology, input_mode, input_table, df, i, loc, halt>>

\* --------------------------------------------------------------- load
Frame(t) == [defined |-> TRUE, cols |-> t.cols, index |-> t.index, rows |-> t.rows]

required_cols == {"Qinj_B", "qoil_B", "WHP_psi", "WOR"}

\* what the upload block does with the file t: <<halt, df>>
ReadExcel(v, tech, t) ==
    IF v = "ior_app"
    THEN IF "date" \notin t.cols THEN <<"stop", Frame(t)>>
         ELSE IF required_cols \ t.cols # {} THEN <<"stop", Frame(t)>>
         ELSE IF tech = "Polymer Injection" /\ "C" \notin t.cols
              THEN <<"stop", Frame(t)>>
         ELSE <<"", Frame(t)>>
    ELSE IF v = "IOR_V2"
    THEN IF "date" \notin t.cols THEN <<"KeyError", Frame(t)>> ELSE <<"", Frame(t)>>
    ELSE <<"", Frame(t)>>

\* "Upload Excel" with a file
LoadUpload ==
    /\ Running("load")
    /\ input_mode = "Upload Excel"
    /\ \E t \in Files :
         LET r == ReadExcel(variant, technology, t) IN
         /\ input_table' = t
         /\ df' = r[2]
         /\ halt' = r[1]
         /\ pc' = IF r[1] = "" THEN StageAfter(variant, "load") ELSE pc
    /\ UNCHANGED <<variant, technology, input_mode, cfg, i, loc>>

\* "Upload Excel" with no file yet: ior_app.py and IOR_V2.py stop, ior_app_v2.py
\* goes on with df never assigned
LoadNoFile ==
    /\ Running("load")
    /\ input_mode = "Upload Excel"
    /\ halt' = IF variant = "ior_app_v2" THEN "" ELSE "stop"
    /\ pc' = IF variant = "ior_app_v2" THEN StageAfter(variant, "load") ELSE pc
    /\ UNCHANGED <<variant, technology, input_mode, cfg, input_table, df, i, loc>>

\* the columns of the manual-entry grid of ior_app.py
ManualCols(tech) ==
    {"Qinj_B", "qoil_B", "WHP_psi", "WOR", "date"}
        \cup (IF tech = "Polymer Injection" THEN {"C"} ELSE {})

\* default_data: num_rows rows of defaults with increasing dates, left as
\* they are in the grid
default_data(tech, num_rows) ==
    Table(ManualCols(tech),
          [p \in 1..num_rows |->
             [Qinj_B |-> Num(1000), qoil_B |-> Num(500), WHP_psi |-> Num(1500),
              WOR |-> One, C |-> Frac(5, 100), date |-> p]])

\* "Manual Entry": an editable grid in ior_app.py, not implemented in the others
LoadManual ==
    /\ Running("load")
    /\ input_mode = "Manual Entry"
    /\ IF variant = "ior_app"
       THEN \E num_rows \in 1..MaxRows :
              LET t == default_data(technology, num_rows) IN
              /\ input_table' = t
              /\ df' = Frame(t)
              /\ halt' = ""
              /\ pc' = StageAfter(variant, "load")
       ELSE /\ halt' = "stop"
            /\ UNCHANGED <<input_table, df, pc>>
    /\ UNCHANGED <<variant, technology, input_mode, cfg, i, loc>>

\* ------------------------------------------------------------ convert
Extend(row, upd) ==
    [c \in DOMAIN row \cup DOMAIN upd |-> IF c \in DOMAIN upd THEN upd[c] ELSE row[c]]

ResultCols ==
    {"X_mix_J", "X_W_Prod_J", "X_Iny_J", "X_RFV_J", "X_ALS_J", "X_Oil_Total_J", "X_RF"}

ConvertRow(row) ==
    Extend(Extend(row, [Qinj_m3 |-> RMul(row["Qinj_B"], bbl_to_m3),
                        qoil_m3 |-> RMul(row["qoil_B"], bbl_to_m3),
                        dP_Pa |-> RMul(row["WHP_psi"], psi_to_Pa)]),
           [c \in ResultCols |-> Zero])

\* unit conversions and the initialisation of the result columns
Convert ==
    /\ Running("convert")
    /\ IF ~df.defined
       THEN /\ halt' = "NameError"
            /\ UNCHANGED <<df, pc>>
       ELSE IF {"Qinj_B", "qoil_B", "WHP_psi"} \ df.cols # {}
       THEN /\ halt' = "KeyError"
            /\ UNCHANGED <<df, pc>>
       ELSE /\ df' = [df EXCEPT !.cols = @ \cup {"Qinj_m3", "qoil_m3", "dP_Pa"}
                                            \cup ResultCols,
                                !.rows = [p \in DOMAIN @ |-> ConvertRow(@[p])]]
            /\ pc' = IF Len(df.rows) = 0 THEN "post" ELSE "loop"
            /\ halt' = ""
    /\ UNCHANGED <<variant, technology, input_mode, cfg, input_table, i, loc>>

\* --------------------------------------------------- calculation loop
Polymer == "Polymer Injection"
Water(v) == IF v = "ior_app" THEN "Water Injection" ELSE "Waterflooding"

\* X_mix of the polymer branch
PolymerMixing(V_mix, C, c) ==
    RDiv(RMul(RMul(V_mix, C),
              RAdd(Num(X_man), RMul(Num(X_shipping), c.d_shipping))),
         c.eff_pui)

\* X_W_Prod
WaterTreatment(V_mix) == RMul(RMul(V_mix, Num(X_trat)), kWh_to_J)

\* an injection term that forgets the pressure: V_mix / eff
Injection_without_dP(V_mix, dP, eff) == RDiv(V_mix, eff)

\* X_Iny: V_mix * dP / eff
Injection(V_mix, dP, eff) == RDiv(RMul(V_mix, dP), eff)

\* for _ in range(n): X_RFV += term
RECURSIVE ValveLoop(_, _, _)
ValveLoop(n, acc, term) ==
    IF n = 0 THEN acc ELSE ValveLoop(n - 1, RAdd(acc, term), term)

\* an accumulator that is not reset: it keeps the previous row's X_RFV
X_RFV_carried(l) == l.X_RFV

\* the value the accumulator X_RFV starts each row with
X_RFV_start(l) == Zero

\* X_RFV: the valve losses summed, then divided once by the pump efficiency
ValveFriction(l, n, V_mix, dP, divisor, eff_pump) ==
    RDiv(ValveLoop(n, X_RFV_start(l), RDiv(RMul(V_mix, dP), divisor)), eff_pump)

\* a factor that ignores the polymer efficiency
PolyFactor_ignored(tech, eff_poly) == One

\* eff_poly if tech == "Polymer Injection" else 1
PolyFactor(tech, eff_poly) == IF tech = Polymer THEN eff_poly ELSE One

\* X_ALS
ArtificialLift(row, c) ==
    LET rho_mix == RAdd(RMul(row["WOR"], c.rho_W),
                        RMul(RSub(One, row["WOR"]), c.rho_O))
        V_liq == RMul(row["qoil_m3"], RAdd(One, row["WOR"]))
    IN RDiv(RMul(RMul(RMul(V_liq, rho_mix), g), c.H), c.ALS)

\* X_Oil_Total
OilChemical(row, c) == RMul(Num(X_Oil_Chem), RMul(row["qoil_m3"], c.rho_O))

\* X_RF, with its guard
RecoveryFactor(X_Oil_Total, total_input_exergy) ==
    IF ~IsZero(X_Oil_Total)
    THEN RDiv(RSub(X_Oil_Total, total_input_exergy), X_Oil_Total)
    ELSE Zero

\* the first exception of a list of <<raised, exception>>, "" when none
RECURSIVE FirstExc(_)
FirstExc(cs) ==
    IF cs = <<>> THEN ""
    ELSE IF cs[1][1] THEN cs[1][2] ELSE FirstExc(Tail(cs))

KeyErr(row, col) == <<col \notin DOMAIN row, "KeyError">>
ZeroDiv(x) == <<IsZero(x), "ZeroDivisionError">>

\* the balance that ends every variant's loop body
Balance(row, c, X_mix, X_W_Prod, X_Iny, X_RFV) ==
    LET X_ALS == ArtificialLift(row, c)
        X_Oil_Total == OilChemical(row, c)
        total_input_exergy ==
            RAdd(RAdd(RAdd(RAdd(X_mix, X_W_Prod), X_Iny), X_RFV), X_ALS)
    IN [exc |-> "", bound |-> TRUE, X_mix |-> X_mix, X_W_Prod |-> X_W_Prod,
        X_Iny |-> X_Iny, X_RFV |-> X_RFV, X_ALS |-> X_ALS,
        X_Oil_Total |-> X_Oil_Total,
        X_RF |-> RecoveryFactor(X_Oil_Total, total_input_exergy)]

Raise(exc) == [exc |-> exc]

\* the loop body of ior_app.py
Body_ior_app(row, c, tech, l) ==
    LET V_mix == row["Qinj_m3"]
        dP == row["dP_Pa"]
        exc == FirstExc(
            (IF tech = "Water Injection"
             THEN << ZeroDiv(c.eff_pump),
                     <<c.n_valves > 0 /\ IsZero(c.eff_valv), "ZeroDivisionError">> >>
             ELSE IF tech = Polymer
             THEN << ZeroDiv(c.eff_pui), ZeroDiv(RMul(c.eff_pump, c.eff_poly)),
                     <<c.n_valves > 0 /\ IsZero(c.eff_poly), "ZeroDivisionError">>,
                     ZeroDiv(c.eff_pump) >>
             ELSE <<>>)
            \o << KeyErr(row, "WOR"), ZeroDiv(c.ALS) >>)
        C == IF "C" \in DOMAIN row THEN row["C"] ELSE Zero
    IN IF exc # "" THEN Raise(exc)
       ELSE IF tech = "Water Injection"
       THEN Balance(row, c, Zero, WaterTreatment(V_mix),
                    Injection(V_mix, dP, c.eff_pump),
                    ValveFriction(l, c.n_valves, V_mix, dP, c.eff_valv, c.eff_pump))
       ELSE IF tech = Polymer
       THEN Balance(row, c, PolymerMixing(V_mix, C, c), WaterTreatment(V_mix),
                    Injection(V_mix, dP, RMul(c.eff_pump, c.eff_poly)),
                    ValveFriction(l, c.n_valves, V_mix, dP, c.eff_poly, c.eff_pump))
       ELSE Balance(row, c, Zero, Zero, Zero, Zero)

\* the loop body of IOR_V2.py
Body_IOR_V2(row, c, tech, l) ==
    LET V_mix == row["Qinj_m3"]
        dP == row["dP_Pa"]
        f == PolyFactor(tech, c.eff_poly)
        exc == FirstExc(
            << KeyErr(row, "WOR"), KeyErr(row, "C"),
               <<tech = Polymer /\ IsZero(c.eff_pui), "ZeroDivisionError">>,
               ZeroDiv(RMul(c.eff_pump, f)),
               <<c.n_valves > 0 /\ IsZero(f), "ZeroDivisionError">>,
               ZeroDiv(c.eff_pump), ZeroDiv(c.ALS) >>)
    IN IF exc # "" THEN Raise(exc)
       ELSE Balance(row, c,
                    IF tech = Polymer THEN PolymerMixing(V_mix, row["C"], c) ELSE Zero,
                    WaterTreatment(V_mix),
                    Injection(V_mix, dP, RMul(c.eff_pump, f)),
                    ValveFriction(l, c.n_valves, V_mix, dP, f, c.eff_pump))

\* the loop body of ior_app_v2.py
Body_ior_app_v2(row, c, tech, l) ==
    LET V_mix == row["Qinj_m3"]
        dP == row["dP_Pa"]
        exc == FirstExc(
            << <<tech = Polymer /\ "C" \notin DOMAIN row, "KeyError">>,
               <<tech = Polymer /\ IsZero(c.eff_pui), "ZeroDivisionError">>,
               ZeroDiv(RMul(c.eff_pump, c.eff_poly)),
               <<c.n_valves > 0 /\ IsZero(c.eff_poly), "ZeroDivisionError">>,
               ZeroDiv(c.eff_pump), KeyErr(row, "WOR"), ZeroDiv(c.ALS) >>)
    IN IF exc # "" THEN Raise(exc)
       ELSE Balance(row, c,
                    IF tech = Polymer THEN PolymerMixing(V_mix, row["C"], c) ELSE Zero,
                    WaterTreatment(V_mix),
                    Injection(V_mix, dP, RMul(c.eff_pump, c.eff_poly)),
                    ValveFriction(l, c.n_valves, V_mix, dP, c.eff_poly, c.eff_pump))

Body(v, row, c, tech, l) ==
    IF v = "ior_app" THEN Body_ior_app(row, c, tech, l)
    ELSE IF v = "IOR_V2" THEN Body_IOR_V2(row, c, tech, l)
    ELSE Body_ior_app_v2(row, c, tech, l)

\* the result columns a finished body stores
Stored(r) ==
    [X_mix_J |-> r.X_mix, X_W_Prod_J |-> r.X_W_Prod, X_Iny_J |-> r.X_Iny,
     X_RFV_J |-> r.X_RFV, X_ALS_J |-> r.X_ALS, X_Oil_Total_J |-> r.X_Oil_Total,
     X_RF |-> r.X_RF]

\* a store that always writes the first row: df.at[df.index[0], ...]
StoreLabel_first(index, pos) == index[1]

\* the label i that iterrows() yields with the row at position pos
StoreLabel(index, pos) == index[pos]

\* df.at[label, cols] = values: every row carrying the label is written
SetAt(d, label, upd) ==
    [d EXCEPT !.rows = [p \in DOMAIN @ |->
                          IF d.index[p] = label THEN Extend(@[p], upd) ELSE @[p]]]

\* one iteration of the loop
ProcessRow ==
    /\ Running("loop")
    /\ i <= Len(df.rows)
    /\ \E r \in {Body(variant, df.rows[i], cfg, technology, loc)} :
       IF r.exc # ""
       THEN /\ halt' = r.exc
            /\ UNCHANGED <<df, i, loc, pc>>
       ELSE /\ df' = SetAt(df, StoreLabel(df.index, i), Stored(r))
            /\ loc' = [k \in DOMAIN NoLocals |-> r[k]]
            /\ i' = i + 1
            /\ pc' = IF i + 1 > Len(df.rows) THEN "post" ELSE "loop"
            /\ halt' = ""
    /\ UNCHANGED <<variant, technology, input_mode, cfg, input_table>>

\* ---------------------------------------------------- post-processing
SummaryCols ==
    {"Input_Exergies_J", "Input_Exergies_kWh", "CO2_Emissions_tons",
     "Energy_Cost_kUSD", "Useful_Oil_Exergy_GJ"}

Summary(row, c) ==
    LET J == RAdd(RAdd(RAdd(RAdd(row["X_mix_J"], row["X_W_Prod_J"]),
                            row["X_Iny_J"]), row["X_RFV_J"]), row["X_ALS_J"])
        kWh == RMul(J, J_to_kWh)
    IN [Input_Exergies_J |-> J,
        Input_Exergies_kWh |-> kWh,
        CO2_Emissions_tons |-> RDiv(RMul(kWh, c.CO2_factor), Num(1000)),
        Energy_Cost_kUSD |-> RDiv(RMul(kWh, c.energy_cost), Num(1000)),
        Useful_Oil_Exergy_GJ |->
            RDiv(RMul(row["X_Oil_Total_J"], row["X_RF"]), Num(1000000000))]

PostProcess ==
    /\ Running("post")
    /\ df' = [df EXCEPT !.cols = @ \cup SummaryCols,
                        !.rows = [p \in DOMAIN @ |-> Extend(@[p], Summary(@[p], cfg))]]
    /\ pc' = "plot"
    /\ UNCHANGED <<variant, technology, input_mode, cfg, input_table, i, loc, halt>>

\* the 2x2 chart and the final table: ior_app_v2.py calls make_subplots without
\* importing it
Plot ==
    /\ Running("plot")
    /\ IF variant = "ior_app_v2"
       THEN halt' = "NameError" /\ pc' = pc
       ELSE IF "date" \notin df.cols
       THEN halt' = "KeyError" /\ pc' = pc
       ELSE halt' = "" /\ pc' = "done"
    /\ UNCHANGED <<variant, technology, input_mode, cfg, input_table, df, i, loc>>

Next ==
    \/ SelectWidgets
    \/ Sidebar
    \/ LoadUpload
    \/ LoadNoFile
    \/ LoadManual
    \/ Convert
    \/ ProcessRow
    \/ PostProcess
    \/ Plot

Spec == Init /\ [][Next]_vars

\* ------------------------------------------------------------- claims
\* the positions whose results the loop has stored
Processed == 1..(i - 1)

\* C1: the valve-friction exergy of every computed row is the sum over n_valves
\* of V_inj * dP_Pa / d, divided once by eta_pump, where d is eta_valve under
\* water injection and eta_poly under polymer injection, in every variant
C1_ValveFrictionDivisor ==
    \A p \in Processed :
        technology \in {Water(variant), Polymer} =>
            LET row == df.rows[p]
                d == IF technology = Polymer THEN "eff_poly" ELSE "eff_valv"
            IN /\ d \in DOMAIN cfg
               /\ REq(row["X_RFV_J"],
                      RDiv(RMul(Num(cfg.n_valves),
                                RDiv(RMul(row["Qinj_m3"], row["dP_Pa"]), cfg[d])),
                           cfg.eff_pump))

\* C2: every row computed under a placeholder technology has X_mix, X_waterTreat,
\* X_inject and X_valveFriction equal to 0, whatever Qinj and WHP are
C2_PlaceholderTermsZero ==
    \A p \in Processed :
        technology \notin {Water(variant), Polymer} =>
            \A c \in {"X_mix_J", "X_W_Prod_J", "X_Iny_J", "X_RFV_J"} :
                IsZero(df.rows[p][c])

\* C3: a row with qoil = 0 gets X_oilTotal = 0 and X_RF = 0 under any technology
\* and configuration, and computing it raises no division by zero
C3_ZeroOilGuard ==
    /\ \A p \in Processed :
           IsZero(df.rows[p]["qoil_B"]) =>
               IsZero(df.rows[p]["X_Oil_Total_J"]) /\ IsZero(df.rows[p]["X_RF"])
    /\ (pc = "loop" /\ i <= Len(df.rows) /\ IsZero(df.rows[i]["qoil_B"]))
           => halt # "ZeroDivisionError"

\* C4: under polymer injection a table without the column C is refused by the
\* validation of the load stage, before any row is computed, and no row is ever
\* computed without its C
C4_MissingCRejected ==
    /\ (technology = Polymer /\ input_table # None /\ "C" \notin input_table.cols)
           => pc = "load" /\ halt = "stop"
    /\ technology = Polymer => \A p \in Processed : "C" \in DOMAIN df.rows[p]

\* C5: under any technology but polymer injection a table that has every column
\* but C goes through the load, the conversions and the loop without error, and
\* every computed row has X_mix = 0
C5_NoCFieldProcessed ==
    (technology \notin {"", Polymer} /\ input_table # None
        /\ input_table.cols = InputCols \ {"C"}) =>
        /\ pc \in {"load", "sidebar", "convert", "loop"} => halt = ""
        /\ \A p \in Processed : IsZero(df.rows[p]["X_mix_J"])

\* C6: a configuration with an efficiency <= 0 or > 1, or with n_valves < 1, is
\* refused when the sidebar builds it, so no run holds such a configuration and
\* no row computation divides by a zero efficiency
Efficiencies == {"eff_pump", "eff_poly", "eff_pui", "eff_valv", "ALS"}

C6_ConfigurationValidated ==
    /\ DOMAIN cfg # {} =>
           /\ \A e \in Efficiencies \cap DOMAIN cfg :
                  ~IsZero(cfg[e]) /\ ~cfg[e].neg /\ RLe(cfg[e], One)
           /\ cfg.n_valves >= 1
    /\ halt # "ZeroDivisionError"

\* C7: when the loop has finished, the table has one row per input row, at the
\* same position and under the same label, and the results stored at position p
\* are the ones computed from the measurement at position p
C7_OrderPreserved ==
    pc \in {"post", "plot", "done"} =>
        /\ Len(df.rows) = Len(input_table.rows)
        /\ df.index = input_table.index
        /\ \A p \in 1..Len(df.rows) :
               \A r \in {Body(variant, ConvertRow(input_table.rows[p]), cfg,
                              technology, NoLocals)} :
                   /\ Restrict(df.rows[p], input_table.cols) = input_table.rows[p]
                   /\ Restrict(df.rows[p], ResultCols) = Stored(r)

\* a finished run over two rows whose dates decrease and whose results differ
C7_Witness ==
    /\ pc = "done"
    /\ Len(df.rows) = 2
    /\ df.rows[1]["date"] > df.rows[2]["date"]
    /\ ~REq(df.rows[1]["X_Iny_J"], df.rows[2]["X_Iny_J"])

\* C8: what the loop computes for a row does not depend on the variables left by
\* the previous iteration, and two positions holding the same measurement get
\* the same results and the same summary
C8_RowIndependence ==
    /\ (Running("loop") /\ i <= Len(df.rows)) =>
           \A r \in {Body(variant, df.rows[i], cfg, technology, loc)} :
               r = Body(variant, df.rows[i], cfg, technology, NoLocals)
    /\ \A p, q \in Processed :
           Restrict(df.rows[p], input_table.cols) = Restrict(df.rows[q], input_table.cols)
               => df.rows[p] = df.rows[q]

\* the same measurement at both positions of a table, computed one after the
\* other with non-zero terms
C8_Witness ==
    /\ pc = "plot"
    /\ Len(df.rows) = 2
    /\ input_table.rows[1] = input_table.rows[2]
    /\ ~IsZero(df.rows[1]["X_RFV_J"])
    /\ ~IsZero(df.rows[2]["X_RFV_J"])

\* the rows at p and q of the table differ only in WHP_psi, q has the larger one
OnlyWHPLarger(p, q) ==
    /\ \A c \in input_table.cols \ {"WHP_psi"} : df.rows[p][c] = df.rows[q][c]
    /\ RLt(df.rows[p]["WHP_psi"], df.rows[q]["WHP_psi"])

\* the branches that compute X_Iny and X_RFV from the row: every technology of
\* IOR_V2.py and ior_app_v2.py, water and polymer injection in ior_app.py
ComputesInjection == variant # "ior_app" \/ technology \in {Water(variant), Polymer}

StrictlyLarger(p, q) ==
    /\ RLt(df.rows[p]["X_Iny_J"], df.rows[q]["X_Iny_J"])
    /\ RLt(df.rows[p]["X_RFV_J"], df.rows[q]["X_RFV_J"])

\* C9, as stated: of two computed rows that differ only in WHP_psi, the one with
\* the larger WHP_psi has the strictly larger X_inject and X_valveFriction
C9_StrictlyMonotone ==
    \A p, q \in Processed : OnlyWHPLarger(p, q) => StrictlyLarger(p, q)

\* C9, amended: of two computed rows that differ only in WHP_psi, the one with
\* the larger WHP_psi has the strictly larger X_inject and X_valveFriction when
\* Qinj > 0 and the branch computes the two terms; when Qinj = 0, or under a
\* placeholder technology of ior_app.py, both terms are 0 in both rows
C9_MonotoneWhenInjecting ==
    \A p, q \in Processed :
        OnlyWHPLarger(p, q) =>
            /\ (RLt(Zero, df.rows[p]["Qinj_B"]) /\ ComputesInjection)
                   => StrictlyLarger(p, q)
            /\ (IsZero(df.rows[p]["Qinj_B"]) \/ ~ComputesInjection)
                   => \A c \in {"X_Iny_J", "X_RFV_J"} :
                          IsZero(df.rows[p][c]) /\ IsZero(df.rows[q][c])

\* two computed rows with Qinj > 0 that differ only in WHP_psi
C9_Witness ==
    \E p, q \in Processed :
        /\ OnlyWHPLarger(p, q)
        /\ RLt(Zero, df.rows[p]["Qinj_B"])
        /\ StrictlyLarger(p, q)

\* the configuration the sidebar gives under water injection, the widgets that
\* both technologies show left as they are
WaterConfig(v, c) ==
    CHOOSE w \in SidebarConfigs(v, Water(v)) :
        \A k \in DOMAIN c \ {"eff_poly", "eff_pui", "d_shipping"} : w[k] = c[k]

\* the polymer run's X_Iny and X_RFV of row p are the ones water injection
\* computes for the same row
SameAsWater(p) ==
    \A w \in {Body(variant, df.rows[p], WaterConfig(variant, cfg), Water(variant),
                   NoLocals)} :
        /\ REq(df.rows[p]["X_Iny_J"], w.X_Iny)
        /\ REq(df.rows[p]["X_RFV_J"], w.X_RFV)

\* C10: a row computed under polymer injection with C = 0 has X_mix = 0, and if
\* its injection rate and pressure are non-zero and its X_inject and
\* X_valveFriction both equal the water-injection values, then eta_poly = 1
C10_PolymerIsolation ==
    technology = Polymer =>
        \A p \in Processed :
            /\ ("C" \in DOMAIN df.rows[p] /\ IsZero(df.rows[p]["C"]))
                   => IsZero(df.rows[p]["X_mix_J"])
            /\ (~IsZero(df.rows[p]["Qinj_B"]) /\ ~IsZero(df.rows[p]["WHP_psi"])
                    /\ SameAsWater(p))
                   => REq(cfg.eff_poly, One)

\* a polymer row with C = 0, Qinj and WHP non-zero and eta_poly = 1, whose two
\* terms equal the water-injection ones
C10_Witness ==
    /\ technology = Polymer
    /\ \E p \in Processed :
           /\ IsZero(df.rows[p]["C"])
           /\ IsZero(df.rows[p]["X_mix_J"])
           /\ ~IsZero(df.rows[p]["Qinj_B"])
           /\ ~IsZero(df.rows[p]["WHP_psi"])
           /\ REq(cfg.eff_poly, One)
           /\ SameAsWater(p)

\* the stages from the unit conversions on
CalculationStages == {"convert", "loop", "post", "plot", "done"}

\* C11: in every variant a run is at the unit conversions or beyond only with a
\* loaded measurement table: without one (upload mode and no file, or manual
\* entry where it is not implemented) the run stops at the load stage, and the
\* conversions never read a table that was never assigned
C11_TableLoadedBeforeCalculation ==
    /\ pc \in CalculationStages => df.defined /\ input_table # None
    /\ (input_mode # "" /\ input_table = None /\ pc # "select"
            /\ (variant = "ior_app" => pc # "sidebar"))
           => pc = "load" /\ halt \in {"", "stop"}
    /\ pc = "convert" => halt # "NameError"

====
